---- MODULE Spec2Model ----
(***************************************************************************)
(* A model of the agent framework of src/src/core/agent.py, of the tabular *)
(* Q-learning agent of src/src/agents/qlearning_agent.py and of the        *)
(* reactive agent of src/src/agents/reactive_agent.py.                     *)
(*                                                                         *)
(* One agent instance is modelled, a QLearningAgent or a ReactiveAgent     *)
(* (cls).  Its fields are the variables; the fields of the other class     *)
(* keep the values Init gives them.                                        *)
(* Every public method is an operator on the record of the fields (Self),  *)
(* returning the fields after the call and the value returned; the direct  *)
(* calls are atomic actions and the two cycle methods are run in steps,    *)
(* one step per assignment to self.state, so that the phases of a cycle    *)
(* can be observed.                                                        *)
(*                                                                         *)
(* Python floats are modelled as exact rationals <<numerator, denominator>>*)
(* (rounding is not modelled).  Optional strings are <<>> for None and     *)
(* <<s>> for the string s.  An Observation is modelled by its data field   *)
(* (timestamp and metadata are never read by the code).                    *)
(***************************************************************************)
EXTENDS Integers, Sequences, FiniteSets, TLC

\* ------------------------------------------------------------------ bounds

\* observations kept since the last reset before the driver stops perceiving
MaxObs == 2
\* experience records kept before the driver stops rewarding
MaxExp == 2
\* calls of reset before the driver stops resetting
MaxResets == 1

\* ------------------------------------------------------------ rationals

Abs(n) == IF n < 0 THEN -n ELSE n

RECURSIVE Gcd(_, _)
Gcd(a, b) == IF b = 0 THEN a ELSE Gcd(b, a % b)

\* the rational n/d in lowest terms, d > 0
Norm(n, d) ==
    LET g == Gcd(Abs(n), Abs(d))
        s == IF d < 0 THEN -1 ELSE 1
    IN  <<(s * n) \div g, (s * d) \div g>>

Lcm(a, b) == (a \div Gcd(a, b)) * b

RInt(n) == <<n, 1>>
Zero == RInt(0)
One == RInt(1)

RAdd(x, y) ==
    LET l == Lcm(x[2], y[2])
    IN  Norm(x[1] * (l \div x[2]) + y[1] * (l \div y[2]), l)

RNeg(x) == <<-x[1], x[2]>>
RSub(x, y) == RAdd(x, RNeg(y))

RMul(x, y) ==
    LET a == Norm(x[1], y[2])
        b == Norm(y[1], x[2])
    IN  Norm(a[1] * b[1], a[2] * b[2])

RLess(x, y) ==
    LET l == Lcm(x[2], y[2])
    IN  x[1] * (l \div x[2]) < y[1] * (l \div y[2])

RLeq(x, y) == x = y \/ RLess(x, y)

\* max() / min() of a non-empty set of rationals
RMax(S) == CHOOSE v \in S : \A w \in S : RLeq(w, v)
RMin(S) == CHOOSE v \in S : \A w \in S : RLeq(v, w)

\* ------------------------------------------------------- Python values

None == <<>>
Some(s) == <<s>>
\* `not x` for an Optional[str]: None and the empty string are falsy
Falsy(x) == x = None \/ x = Some("")

RetNone == [kind |-> "None"]
RetRaise(exc) == [kind |-> "raise", exc |-> exc]
\* Action(name, parameters={}, confidence)
Action(name, confidence) ==
    [kind |-> "Action", name |-> name, confidence |-> confidence]

\* observation payloads: a str payload, or a dict payload given by its items
\* in insertion order
StrData(s) == [kind |-> "str", val |-> s]
DictData(items) == [kind |-> "dict", items |-> items]

\* ------------------------------------------------- constructor arguments

\* QLearningAgent(name, actions, learning_rate, discount_factor,
\* exploration_rate): the configurations the model is run with.  One has the
\* constructor's default rates (0.1, 0.9, 0.1); the last has no action.
Configs ==
    { [actions |-> <<"a", "b">>, learning_rate |-> <<1, 2>>,
       discount_factor |-> <<9, 10>>, exploration_rate |-> e] :
         e \in {Zero, <<1, 5>>} }
    \cup
    { [actions |-> <<"a", "b", "c">>, learning_rate |-> <<1, 10>>,
       discount_factor |-> <<9, 10>>, exploration_rate |-> <<1, 10>>],
      [actions |-> << >>, learning_rate |-> <<1, 2>>,
       discount_factor |-> <<9, 10>>, exploration_rate |-> <<1, 5>>] }

\* what the driver passes in
Payloads == { StrData("s1"), StrData("s2"), StrData("") }
Rewards == { RInt(10), RInt(0), RInt(-1) }
\* outcomes of random.random(), a float in [0, 1)
RandomDraws == { Zero, <<1, 2>> }

\* ------------------------------------------------------------------ state

VARIABLES
    \* the class of the agent: "QLearningAgent" or "ReactiveAgent"
    cls,
    \* constructor arguments (never assigned after __init__)
    available_actions, learning_rate, discount_factor, exploration_rate,
    \* BaseAgent / LearningAgent fields
    state, observations, actions_taken, experience,
    \* QLearningAgent fields
    q_table, current_state, last_state, last_action,
    \* ReactiveAgent fields
    rules, default_action, current_observation,
    \* the cycle method in progress: its position and its locals
    pc, cyc,
    \* the most recent call of a public method that has returned: its name,
    \* its result and, for decide, the outcome of random.random() and the rule
    \* functions it invoked, each with its argument
    call,
    \* history (read by no method): the state and the action of the most recent
    \* decide that returned an Action, whether decide was ever called, whether
    \* it was called since the last reset, the number of resets, and whether
    \* perceive was ever called
    chosen, ever_decided, decided_since_reset, resets, ever_perceived,
    \* the research-assistant workflow of agent.py, a program of its own: the
    \* node the graph runs next, the two keys of its state, and in run_agent
    \* the local final_state and the value returned
    node, messages, next_step, final_state, answer

fields == <<state, observations, actions_taken, experience,
            q_table, current_state, last_state, last_action,
            rules, default_action, current_observation>>
config == <<cls, available_actions, learning_rate, discount_factor,
            exploration_rate>>
decisions == <<chosen, ever_decided, decided_since_reset, resets>>
history == <<decisions, ever_perceived>>
workflow == <<node, messages, next_step, final_state, answer>>
vars == <<config, fields, pc, cyc, call, history, workflow>>

\* the agent object, as the methods see it
Self ==
    [ cls |-> cls,
      available_actions |-> available_actions,
      learning_rate |-> learning_rate,
      discount_factor |-> discount_factor,
      exploration_rate |-> exploration_rate,
      state |-> state,
      observations |-> observations,
      actions_taken |-> actions_taken,
      experience |-> experience,
      q_table |-> q_table,
      current_state |-> current_state,
      last_state |-> last_state,
      last_action |-> last_action,
      rules |-> rules,
      default_action |-> default_action,
      current_observation |-> current_observation ]

\* the fields after a method has run on the agent
Store(self) ==
    /\ state' = self.state
    /\ observations' = self.observations
    /\ actions_taken' = self.actions_taken
    /\ experience' = self.experience
    /\ q_table' = self.q_table
    /\ current_state' = self.current_state
    /\ last_state' = self.last_state
    /\ last_action' = self.last_action
    /\ rules' = self.rules
    /\ default_action' = self.default_action
    /\ current_observation' = self.current_observation
    /\ UNCHANGED <<config, workflow>>

\* ------------------------------------------------------- the Q-table

EmptyTable == [k \in {} |-> Zero]

\* a table whose missing keys are inserted with 0.5
Materialize_half(q, keys) ==
    [k \in (DOMAIN q) \cup keys |-> IF k \in DOMAIN q THEN q[k] ELSE <<1, 2>>]

\* defaultdict(float).__getitem__ on each of keys: a missing key is inserted
\* with 0.0
Materialize(q, keys) ==
    [k \in (DOMAIN q) \cup keys |-> IF k \in DOMAIN q THEN q[k] ELSE Zero]

\* dict.get(key, 0.0): no insertion
QGet(q, key) == IF key \in DOMAIN q THEN q[key] ELSE Zero

\* the write as a new table holding only the entry written
QSet_new_table(q, key, v) == [k \in {key} |-> v]

\* q[key] = v
QSet(q, key, v) ==
    [k \in (DOMAIN q) \cup {key} |-> IF k = key THEN v ELSE q[k]]

SeqRange(s) == { s[i] : i \in 1..Len(s) }

\* random.choice(seq) of a non-empty seq, for the outcome `pick` of the
\* random source
RandomChoice(seq, pick) == seq[(pick % Len(seq)) + 1]

\* ------------------------------------------------ QLearningAgent methods

\* str(sorted(d.items())) needs the order of the keys: the keys the payloads
\* use, in str order
KeyOrder == <<"x", "y">>
KeyRank(key) == CHOOSE i \in 1..Len(KeyOrder) : KeyOrder[i] = key

\* the items as the dict gives them, without sorted()
SortedItems_insertion_order(items) == items

\* sorted(items): the items by ascending key (the keys of a dict are distinct)
SortedItems(items) ==
    LET n == Len(items)
        Below(i) == Cardinality({ j \in 1..n : KeyRank(items[j][1]) < KeyRank(items[i][1]) })
    IN  [ r \in 1..n |-> items[CHOOSE i \in 1..n : Below(i) = r - 1] ]

\* str() of a list of (str, int) tuples: "[('x', 1), ('y', 2)]"
RECURSIVE RenderItems(_)
RenderItems(items) ==
    IF Len(items) = 0 THEN ""
    ELSE LET it == Head(items)
             one == "('" \o it[1] \o "', " \o ToString(it[2]) \o ")"
         IN  IF Len(items) = 1 THEN one
             ELSE one \o ", " \o RenderItems(Tail(items))

state_from_observation(observation) ==
    IF observation.kind = "dict"
    THEN "[" \o RenderItems(SortedItems(observation.items)) \o "]"
    ELSE observation.val

\* perceive(observation) with the bug of recording the new state as last_state
perceive_last_is_new(self, observation) ==
    [ self EXCEPT
        !.observations = Append(self.observations, observation),
        !.last_state = Some(state_from_observation(observation)),
        !.current_state = Some(state_from_observation(observation)) ]

\* perceive(observation)
perceive(self, observation) ==
    [ self EXCEPT
        !.observations = Append(self.observations, observation),
        !.last_state = self.current_state,
        !.current_state = Some(state_from_observation(observation)) ]

\* _get_best_action with the bug of breaking ties by the first maximizer
get_best_action_first(self, st, pick) ==
    LET acts == self.available_actions
        q == Materialize(self.q_table, { <<st, a>> : a \in SeqRange(acts) })
        max_q == RMax({ q[<<st, a>>] : a \in SeqRange(acts) })
        best_actions == SelectSeq(acts, LAMBDA a : q[<<st, a>>] = max_q)
    IN  IF Len(acts) = 0
        THEN [ q_table |-> q, name |-> "", exc |-> "ValueError" ]
        ELSE [ q_table |-> q, name |-> best_actions[1], exc |-> "" ]

\* _get_best_action(state), for the outcome `pick` of random.choice: the
\* table after the reads and the action name returned, or the exception
\* raised (exc = "" when none is)
get_best_action(self, st, pick) ==
    LET acts == self.available_actions
        q == Materialize(self.q_table, { <<st, a>> : a \in SeqRange(acts) })
        q_values == [ i \in 1..Len(acts) |-> q[<<st, acts[i]>>] ]
        max_q == RMax(SeqRange(q_values))
        best_actions == SelectSeq(acts, LAMBDA a : q[<<st, a>>] = max_q)
    IN  IF Len(acts) = 0
        THEN \* max() of an empty list
             [ q_table |-> q, name |-> "", exc |-> "ValueError" ]
        ELSE IF RMax(SeqRange(q_values)) = RMin(SeqRange(q_values))
        THEN [ q_table |-> q, name |-> RandomChoice(acts, pick), exc |-> "" ]
        ELSE [ q_table |-> q, name |-> RandomChoice(best_actions, pick),
               exc |-> "" ]

\* the test of line 90 with <= for <
explores_leq(self, u) == RLeq(u, self.exploration_rate)

\* random.random() < self.exploration_rate, for the outcome u of random.random()
explores(self, u) == RLess(u, self.exploration_rate)

\* confidence=1.0 - self.exploration_rate
confidence(self) == RSub(One, self.exploration_rate)

\* decide() without the test of line 86: with no state perceived it goes on
\* with None for the state (written "None" in the keys)
decide_no_state_guard(self, u, pick) ==
    LET st == IF self.current_state = None THEN "None"
              ELSE self.current_state[1]
    IN  IF explores(self, u)
        THEN IF Len(self.available_actions) = 0
             THEN [ self |-> self, ret |-> RetRaise("IndexError") ]
             ELSE LET action_name == RandomChoice(self.available_actions, pick)
                  IN  [ self |-> [self EXCEPT !.last_action = Some(action_name)],
                        ret |-> Action(action_name, confidence(self)) ]
        ELSE LET best == get_best_action(self, st, pick)
                 read == [self EXCEPT !.q_table = best.q_table]
             IN  IF best.exc # ""
                 THEN [ self |-> read, ret |-> RetRaise(best.exc) ]
                 ELSE [ self |-> [read EXCEPT !.last_action = Some(best.name)],
                        ret |-> Action(best.name, confidence(self)) ]

\* decide(), for the outcomes u of random.random() and pick of random.choice
decide(self, u, pick) ==
    IF Falsy(self.current_state)
    THEN [ self |-> self, ret |-> RetNone ]
    ELSE IF explores(self, u)
    THEN \* explore
         IF Len(self.available_actions) = 0
         THEN \* random.choice of an empty list
              [ self |-> self, ret |-> RetRaise("IndexError") ]
         ELSE LET action_name == RandomChoice(self.available_actions, pick)
              IN  [ self |-> [self EXCEPT !.last_action = Some(action_name)],
                    ret |-> Action(action_name, confidence(self)) ]
    ELSE \* exploit
         LET best == get_best_action(self, self.current_state[1], pick)
             read == [self EXCEPT !.q_table = best.q_table]
         IN  IF best.exc # ""
             THEN [ self |-> read, ret |-> RetRaise(best.exc) ]
             ELSE [ self |-> [read EXCEPT !.last_action = Some(best.name)],
                    ret |-> Action(best.name, confidence(self)) ]

\* act(action) with the value read as self.q_table[key]: the defaultdict
\* inserts a missing key
act_reads_by_index(self, action) ==
    LET st == IF self.current_state = None THEN "None"
              ELSE self.current_state[1]
        q == Materialize(self.q_table, { <<st, action.name>> })
    IN  [ self |-> [self EXCEPT !.q_table = q],
          ret |-> [ kind |-> "result",
                    action |-> action.name,
                    state |-> self.current_state,
                    q_value |-> q[<<st, action.name>>] ] ]

\* act(action): the result dictionary (the agent's name is left out)
act(self, action) ==
    [ self |-> self,
      ret |-> [ kind |-> "result",
                action |-> action.name,
                state |-> self.current_state,
                q_value |-> IF self.current_state = None THEN Zero
                            ELSE QGet(self.q_table,
                                      <<self.current_state[1], action.name>>) ] ]

\* the update rule without the decay of the old value
NewQ_no_decay(old_q, lr, reward, gamma, next_max_q) ==
    RAdd(old_q, RMul(lr, RAdd(reward, RMul(gamma, next_max_q))))

\* new_q = old_q + learning_rate * (reward + discount_factor * next_max_q - old_q)
NewQ(old_q, lr, reward, gamma, next_max_q) ==
    RAdd(old_q, RMul(lr, RSub(RAdd(reward, RMul(gamma, next_max_q)), old_q)))

\* the maximum for the next state read with get(key, 0.0): no key is inserted
next_max_q_get(self, q) ==
    IF Falsy(self.current_state)
    THEN [ q_table |-> q, value |-> Zero, exc |-> "" ]
    ELSE IF Len(self.available_actions) = 0
    THEN [ q_table |-> q, value |-> Zero, exc |-> "ValueError" ]
    ELSE [ q_table |-> q,
           value |-> RMax({ QGet(q, <<self.current_state[1], a>>) :
                              a \in SeqRange(self.available_actions) }),
           exc |-> "" ]

\* next_max_q of learn, read from the table q: the table after the reads and
\* the maximum, or the exception raised (exc = "" when none is)
next_max_q(self, q) ==
    IF Falsy(self.current_state)
    THEN [ q_table |-> q, value |-> Zero, exc |-> "" ]
    ELSE
    LET keys == { <<self.current_state[1], a>> :
                    a \in SeqRange(self.available_actions) }
        q2 == Materialize(q, keys)
    IN  IF Len(self.available_actions) = 0
        THEN \* max() of an empty generator
             [ q_table |-> q2, value |-> Zero, exc |-> "ValueError" ]
        ELSE [ q_table |-> q2, value |-> RMax({ q2[k] : k \in keys }),
               exc |-> "" ]

\* learn(reward) past its guard: the update of (last_state, last_action)
learn_update(self, reward) ==
    LET key == <<self.last_state[1], self.last_action[1]>>
        q1 == Materialize(self.q_table, {key})
        old_q == q1[key]
        nxt == next_max_q(self, q1)
        new_q == NewQ(old_q, self.learning_rate, reward,
                      self.discount_factor, nxt.value)
    IN  IF nxt.exc # ""
        THEN [ self |-> [self EXCEPT !.q_table = nxt.q_table],
               ret |-> RetRaise(nxt.exc) ]
        ELSE [ self |->
                 [ self EXCEPT
                     !.q_table = QSet(nxt.q_table, key, new_q),
                     !.experience = Append(self.experience,
                        [ state |-> self.last_state[1],
                          action |-> self.last_action[1],
                          reward |-> reward,
                          next_state |-> self.current_state,
                          q_value |-> new_q ]) ],
               ret |-> RetNone ]

\* learn(reward) with a guard that only looks at last_state (the key then
\* holds None for the action, written "None")
learn_no_action_guard(self, reward) ==
    IF Falsy(self.last_state)
    THEN [ self |-> self, ret |-> RetNone ]
    ELSE learn_update(
           [self EXCEPT !.last_action =
              IF Falsy(self.last_action) THEN Some("None") ELSE @], reward)

\* learn(reward)
learn(self, reward) ==
    IF Falsy(self.last_state) \/ Falsy(self.last_action)
    THEN [ self |-> self, ret |-> RetNone ]
    ELSE learn_update(self, reward)

\* sum(q.values())
RECURSIVE SumValues(_, _)
SumValues(q, keys) ==
    IF keys = {} THEN Zero
    ELSE LET k == CHOOSE k \in keys : TRUE
         IN  RAdd(q[k], SumValues(q, keys \ {k}))

\* x / n for an int n > 0
RDivInt(x, n) == Norm(x[1], x[2] * n)

\* a summary whose states_visited counts the keys, not their states
get_q_table_summary_counts_keys(self) ==
    [ self |-> self,
      ret |-> [ kind |-> "summary",
                total_entries |-> Cardinality(DOMAIN self.q_table),
                total_experiences |-> Len(self.experience),
                average_q_value |->
                    IF DOMAIN self.q_table = {} THEN Zero
                    ELSE RDivInt(SumValues(self.q_table, DOMAIN self.q_table),
                                 Cardinality(DOMAIN self.q_table)),
                states_visited |-> Cardinality(DOMAIN self.q_table) ] ]

\* get_q_table_summary()
get_q_table_summary(self) ==
    [ self |-> self,
      ret |-> [ kind |-> "summary",
                total_entries |-> Cardinality(DOMAIN self.q_table),
                total_experiences |-> Len(self.experience),
                average_q_value |->
                    IF DOMAIN self.q_table = {} THEN Zero
                    ELSE RDivInt(SumValues(self.q_table, DOMAIN self.q_table),
                                 Cardinality(DOMAIN self.q_table)),
                states_visited |->
                    Cardinality({ k[1] : k \in DOMAIN self.q_table }) ] ]

\* a reset that also wipes what the agent has learned or been given
reset_wipes_tables(self) ==
    [ self EXCEPT !.state = "idle", !.observations = << >>,
                  !.actions_taken = << >>, !.q_table = EmptyTable,
                  !.rules = [k \in {} |-> ""] ]

\* BaseAgent.reset(), which neither agent class overrides
reset(self) ==
    [ self EXCEPT !.state = "idle", !.observations = << >>,
                  !.actions_taken = << >> ]

\* --------------------------------------------------- ReactiveAgent methods

\* Action(name, parameters): confidence has its default, 1.0
RuleAction(name, parameters) ==
    [ kind |-> "Action", name |-> name, parameters |-> parameters,
      confidence |-> One ]

\* a rule function is known by its name; the one named f is
\*   lambda data: Action(name=f, parameters=data)
apply_rule(action_fn, data) == RuleAction(action_fn, data)

\* add_rule as self.rules.setdefault(condition, action_fn): the first rule
\* registered under a key stays
add_rule_keeps_first(self, condition, action_fn) ==
    [ self EXCEPT !.rules =
        [ k \in (DOMAIN self.rules) \cup {condition} |->
            IF k \in DOMAIN self.rules THEN self.rules[k] ELSE action_fn ] ]

\* add_rule(condition, action_fn): self.rules[condition] = action_fn
add_rule(self, condition, action_fn) ==
    [ self EXCEPT !.rules =
        [ k \in (DOMAIN self.rules) \cup {condition} |->
            IF k = condition THEN action_fn ELSE self.rules[k] ] ]

\* set_default_action(action)
set_default_action(self, action) == [ self EXCEPT !.default_action = action ]

\* ReactiveAgent.perceive(observation) without the append of line 62
ReactiveAgent_perceive_no_append(self, observation) ==
    [ self EXCEPT !.current_observation = Some(observation) ]

\* ReactiveAgent.perceive(observation)
ReactiveAgent_perceive(self, observation) ==
    [ self EXCEPT
        !.current_observation = Some(observation),
        !.observations = Append(self.observations, observation) ]

\* dict.get(key) on the items of a dict: None when the key is missing
dict_get(items, key) ==
    IF \E i \in 1..Len(items) : items[i][1] = key
    THEN Some(items[CHOOSE i \in 1..Len(items) : items[i][1] = key][2])
    ELSE None

\* the items of a dict whose values are str, as str(dict) writes them, in
\* insertion order: 'type': 'hot', 'n': 'v'
RECURSIVE ReprItems(_)
ReprItems(items) ==
    IF Len(items) = 0 THEN ""
    ELSE LET it == Head(items)
             one == "'" \o it[1] \o "': '" \o it[2] \o "'"
         IN  IF Len(items) = 1 THEN one
             ELSE one \o ", " \o ReprItems(Tail(items))

\* str(data) of a payload handed to a ReactiveAgent
str(data) ==
    IF data.kind = "dict" THEN "{" \o ReprItems(data.items) \o "}"
    ELSE data.val

\* ReactiveAgent.decide() with the two lookups in the other order: the str
\* of the payload first, then the type of a dict payload
ReactiveAgent_decide_str_first(self) ==
    IF self.current_observation = None
    THEN [ self |-> self, ret |-> self.default_action, invoked |-> << >> ]
    ELSE
    LET data == self.current_observation[1]
        obs_type == IF data.kind = "dict" THEN dict_get(data.items, "type")
                    ELSE None
        Invoke(key) ==
            [ self |-> self,
              ret |-> apply_rule(self.rules[key], data),
              invoked |-> << <<self.rules[key], data>> >> ]
    IN  IF str(data) \in DOMAIN self.rules
        THEN Invoke(str(data))
        ELSE IF data.kind = "dict" /\ obs_type # None
                                   /\ obs_type[1] \in DOMAIN self.rules
        THEN Invoke(obs_type[1])
        ELSE [ self |-> self, ret |-> self.default_action, invoked |-> << >> ]

\* ReactiveAgent.decide(): the value returned and the rule functions invoked,
\* each with its argument
ReactiveAgent_decide(self) ==
    IF self.current_observation = None
    THEN [ self |-> self, ret |-> self.default_action, invoked |-> << >> ]
    ELSE
    LET data == self.current_observation[1]
        obs_type == IF data.kind = "dict" THEN dict_get(data.items, "type")
                    ELSE None
        Invoke(key) ==
            [ self |-> self,
              ret |-> apply_rule(self.rules[key], data),
              invoked |-> << <<self.rules[key], data>> >> ]
    IN  IF data.kind = "dict" /\ obs_type # None
                              /\ obs_type[1] \in DOMAIN self.rules
        THEN Invoke(obs_type[1])
        ELSE IF str(data) \in DOMAIN self.rules
        THEN Invoke(str(data))
        ELSE [ self |-> self, ret |-> self.default_action, invoked |-> << >> ]

\* an act that marks its own phase in the state field
ReactiveAgent_act_sets_acting(self, action) ==
    [ self |-> [self EXCEPT !.state = "acting"],
      ret |-> [ kind |-> "result", action |-> action.name,
                parameters |-> action.parameters, success |-> TRUE ] ]

\* ReactiveAgent.act(action): the result dictionary (the agent's name is left
\* out)
ReactiveAgent_act(self, action) ==
    [ self |-> self,
      ret |-> [ kind |-> "result", action |-> action.name,
                parameters |-> action.parameters, success |-> TRUE ] ]

\* ------------------------------------------ the methods of the agent's class

\* self.perceive(observation)
self_perceive(self, observation) ==
    IF self.cls = "ReactiveAgent" THEN ReactiveAgent_perceive(self, observation)
    ELSE perceive(self, observation)

\* self.decide(), for the outcomes u and pick of the random source
self_decide(self, u, pick) ==
    IF self.cls = "ReactiveAgent" THEN ReactiveAgent_decide(self)
    ELSE LET d == decide(self, u, pick)
         IN  [ self |-> d.self, ret |-> d.ret, invoked |-> << >> ]

\* an act that refuses to run on a stopped agent
self_act_refuses_when_stopped(self, action) ==
    IF self.state = "stopped" THEN [ self |-> self, ret |-> RetNone ]
    ELSE IF self.cls = "ReactiveAgent" THEN ReactiveAgent_act(self, action)
    ELSE act(self, action)

\* self.act(action)
self_act(self, action) ==
    IF self.cls = "ReactiveAgent" THEN ReactiveAgent_act(self, action)
    ELSE act(self, action)

\* ------------------------------------ the research-assistant workflow

\* the messages of langchain_core, by their class
HumanMessage(content) ==
    [ type |-> "human", content |-> content, tool_calls |-> << >> ]
AIMessage(content, tool_calls) ==
    [ type |-> "ai", content |-> content, tool_calls |-> tool_calls ]
ToolMessage(content) ==
    [ type |-> "tool", content |-> content, tool_calls |-> << >> ]

\* what llm_with_tools.invoke may answer: a text or none, and calls of the
\* bound tools or none
Contents == {"", "c1", "c2"}
ToolCalls == { << >>, <<"calculator">>, <<"wikipedia_search", "calculator">> }
Responses == { AIMessage(c, t) : c \in Contents, t \in ToolCalls }

\* the graph state, an AgentState of agent.py
GraphState == [ messages |-> messages, next_step |-> next_step ]

\* a call_model that goes to the tools when the response has no text
call_model_routes_on_content(st, response) ==
    [ messages |-> <<response>>,
      next_step |-> IF response.content = "" THEN "tools" ELSE "end" ]

\* call_model(state), for the response of the model: the update it returns
\* (the system message it puts before a first message goes to the model
\* only)
call_model(st, response) ==
    [ messages |-> <<response>>,
      next_step |-> IF response.tool_calls # << >> THEN "tools" ELSE "end" ]

\* should_continue(state)
should_continue(st) == st.next_step

\* the conditional edges of "agent": {"tools": "tools", "end": END}
conditional_edges(choice) == IF choice = "tools" THEN "tools" ELSE "END"

\* ToolNode(tools): one ToolMessage for each tool call of the last message
tool_node(st) ==
    LET calls == st.messages[Len(st.messages)].tool_calls
    IN  [ messages |-> [ i \in 1..Len(calls) |-> ToolMessage(calls[i]) ] ]

\* the messages key of the state after an update: operator.add
add_messages(st, update) == st.messages \o update.messages

\* the extraction of run_agent: the last AIMessage with a text among the
\* messages of the last streamed update
final_response(msgs) ==
    LET hits == SelectSeq(msgs, LAMBDA m : m.type = "ai" /\ m.content # "")
    IN  IF hits = << >> THEN "No response generated"
        ELSE hits[Len(hits)].content

\* ------------------------------------------------------------ the driver

\* the values of AgentState
AgentStates == {"idle", "thinking", "acting", "learning", "stopped"}

\* the locals of a cycle method, and the methods it has called so far
NoCycle == [ method |-> "", observation |-> StrData(""), reward |-> None,
             action |-> RetNone, result |-> RetNone, calls |-> << >> ]
NoCall == [ op |-> "init", u |-> Zero, ret |-> RetNone, invoked |-> << >> ]
Called(op, ret) == [ op |-> op, u |-> Zero, ret |-> ret, invoked |-> << >> ]

\* outcomes of random.choice that reach every index of a list of actions
Picks == 0 .. (IF Len(available_actions) = 0 THEN 0
               ELSE Len(available_actions) - 1)

\* the Actions a caller hands to act directly
ActArgs == { Action(n, One) : n \in SeqRange(available_actions) \cup {"other"} }

\* ReactiveAgent.__init__ leaves these; a QLearningAgent has no such field
NoRules == [k \in {} |-> ""]
\* run_agent has not been called
NoRun ==
    /\ node = "start"
    /\ messages = << >>
    /\ next_step = ""
    /\ final_state = None
    /\ answer = None

InitReactiveFields ==
    /\ rules = NoRules
    /\ default_action = RetNone
    /\ current_observation = None

\* after QLearningAgent(name, actions, learning_rate, discount_factor,
\* exploration_rate)
Init ==
    /\ cls = "QLearningAgent"
    /\ InitReactiveFields
    /\ \E c \in Configs :
         /\ available_actions = c.actions
         /\ learning_rate = c.learning_rate
         /\ discount_factor = c.discount_factor
         /\ exploration_rate = c.exploration_rate
    /\ state = "idle"
    /\ observations = << >>
    /\ actions_taken = << >>
    /\ experience = << >>
    /\ q_table = EmptyTable
    /\ current_state = None
    /\ last_state = None
    /\ last_action = None
    /\ pc = "idle"
    /\ cyc = NoCycle
    /\ call = NoCall
    /\ chosen = None
    /\ ever_decided = FALSE
    /\ decided_since_reset = FALSE
    /\ resets = 0
    /\ ever_perceived = FALSE
    /\ NoRun

\* after ReactiveAgent(name); a ReactiveAgent has no field of a learning agent
InitReactive ==
    /\ cls = "ReactiveAgent"
    /\ InitReactiveFields
    /\ available_actions = << >>
    /\ learning_rate = Zero
    /\ discount_factor = Zero
    /\ exploration_rate = Zero
    /\ state = "idle"
    /\ observations = << >>
    /\ actions_taken = << >>
    /\ experience = << >>
    /\ q_table = EmptyTable
    /\ current_state = None
    /\ last_state = None
    /\ last_action = None
    /\ pc = "idle"
    /\ cyc = NoCycle
    /\ call = NoCall
    /\ chosen = None
    /\ ever_decided = FALSE
    /\ decided_since_reset = FALSE
    /\ resets = 0
    /\ ever_perceived = FALSE
    /\ NoRun

\* history kept when decide has run on the agent `self` and returned r
Decided(self, r) ==
    /\ chosen' = IF /\ r.kind = "Action"
                    /\ self.cls = "QLearningAgent"
                    /\ self.current_state # None
                 THEN <<self.current_state[1], r.name>> ELSE chosen
    /\ ever_decided' = TRUE
    /\ decided_since_reset' = TRUE
    /\ UNCHANGED <<resets, ever_perceived>>

\* ---- direct calls of the methods, when no cycle is running

CallPerceive(observation) ==
    /\ pc = "idle"
    /\ Len(observations) < MaxObs
    /\ Store(self_perceive(Self, observation))
    /\ call' = Called("perceive", RetNone)
    /\ ever_perceived' = TRUE
    /\ UNCHANGED <<pc, cyc, decisions>>

CallDecide(u, pick) ==
    /\ pc = "idle"
    /\ LET d == self_decide(Self, u, pick)
       IN  /\ Store(d.self)
           /\ call' = [ op |-> "decide", u |-> u, ret |-> d.ret,
                        invoked |-> d.invoked ]
           /\ Decided(Self, d.ret)
    /\ UNCHANGED <<pc, cyc>>

CallAct(action) ==
    /\ pc = "idle"
    /\ LET r == self_act(Self, action)
       IN  /\ Store(r.self)
           /\ call' = Called("act", r.ret)
    /\ UNCHANGED <<pc, cyc, history>>

CallLearn(reward) ==
    /\ pc = "idle"
    /\ Len(experience) < MaxExp
    /\ LET l == learn(Self, reward)
       IN  /\ Store(l.self)
           /\ call' = Called("learn", l.ret)
    /\ UNCHANGED <<pc, cyc, history>>

\* a reset that forgets the observations and keeps the actions
CallReset_keeps_actions ==
    /\ pc = "idle"
    /\ resets < MaxResets
    /\ resets' = resets + 1
    /\ Store([reset(Self) EXCEPT !.actions_taken = actions_taken])
    /\ call' = Called("reset", RetNone)
    /\ decided_since_reset' = FALSE
    /\ UNCHANGED <<pc, cyc, chosen, ever_decided, ever_perceived>>

CallReset ==
    /\ pc = "idle"
    /\ resets < MaxResets
    /\ resets' = resets + 1
    /\ Store(reset(Self))
    /\ call' = Called("reset", RetNone)
    /\ decided_since_reset' = FALSE
    /\ UNCHANGED <<pc, cyc, chosen, ever_decided, ever_perceived>>

CallSummary ==
    /\ pc = "idle"
    /\ cls = "QLearningAgent"
    /\ LET r == get_q_table_summary(Self)
       IN  /\ Store(r.self)
           /\ call' = Called("get_q_table_summary", r.ret)
    /\ UNCHANGED <<pc, cyc, history>>

CallAddRule(condition, action_fn) ==
    /\ pc = "idle"
    /\ cls = "ReactiveAgent"
    /\ Store(add_rule(Self, condition, action_fn))
    /\ call' = Called("add_rule", RetNone)
    /\ UNCHANGED <<pc, cyc, history>>

CallSetDefaultAction(action) ==
    /\ pc = "idle"
    /\ cls = "ReactiveAgent"
    /\ Store(set_default_action(Self, action))
    /\ call' = Called("set_default_action", RetNone)
    /\ UNCHANGED <<pc, cyc, history>>

\* ---- the cycle methods, one step per assignment to self.state

\* self.state = THINKING; self.perceive(observation)
CycleBegin(method, observation, reward) ==
    /\ pc = "idle"
    /\ Len(observations) < MaxObs
    /\ reward # None => Len(experience) < MaxExp
    /\ Store(self_perceive([Self EXCEPT !.state = "thinking"], observation))
    /\ pc' = "perceived"
    /\ cyc' = [ method |-> method, observation |-> observation,
                reward |-> reward, action |-> RetNone, result |-> RetNone,
                calls |-> <<"perceive">> ]
    /\ ever_perceived' = TRUE
    /\ UNCHANGED <<call, decisions>>

\* the call returns r (or raises it): the cycle is over
CycleOver(r) ==
    /\ pc' = "idle"
    /\ cyc' = NoCycle
    /\ call' = Called(cyc.method, r)

\* action = self.decide()
CycleDecide(method, u, pick) ==
    /\ cyc.method = method
    /\ LET d == self_decide(Self, u, pick)
       IN  /\ Store(d.self)
           /\ Decided(Self, d.ret)
           /\ IF d.ret.kind = "raise"
              THEN CycleOver(d.ret)
              ELSE /\ pc' = "decided"
                   /\ cyc' = [cyc EXCEPT !.action = d.ret,
                                         !.calls = Append(@, "decide")]
                   /\ UNCHANGED call

\* if action: self.state = ACTING; result = self.act(action)
CycleAct(method) ==
    /\ cyc.method = method
    /\ pc = "decided"
    /\ cyc.action.kind = "Action"
    /\ LET r == self_act([Self EXCEPT !.state = "acting"], cyc.action)
       IN  /\ Store(r.self)
           /\ cyc' = [cyc EXCEPT !.result = r.ret,
                                 !.calls = Append(@, "act")]
    /\ pc' = "acted"
    /\ UNCHANGED <<call, history>>

\* the return of a cycle without the assignment of IDLE on the path where
\* decide returned None
CycleReturn_none_keeps_state(method) ==
    /\ cyc.method = method
    /\ \/ /\ pc = "acted"
          /\ Store([Self EXCEPT
                      !.actions_taken = Append(actions_taken, cyc.action),
                      !.state = "idle"])
          /\ CycleOver(cyc.result)
       \/ /\ pc = "decided"
          /\ cyc.action.kind = "None"
          /\ Store(Self)
          /\ CycleOver(RetNone)
    /\ UNCHANGED history

\* self.actions_taken.append(action); self.state = IDLE; return result
\* or, when decide returned None: self.state = IDLE; return None
CycleReturn(method) ==
    /\ cyc.method = method
    /\ \/ /\ pc = "acted"
          /\ Store([Self EXCEPT
                      !.actions_taken = Append(actions_taken, cyc.action),
                      !.state = "idle"])
          /\ CycleOver(cyc.result)
       \/ /\ pc = "decided"
          /\ cyc.action.kind = "None"
          /\ Store([Self EXCEPT !.state = "idle"])
          /\ CycleOver(RetNone)
    /\ UNCHANGED history

\* BaseAgent.run_cycle(observation)
RunCycle(observation) == CycleBegin("run_cycle", observation, None)
RunCycleDecide(u, pick) ==
    /\ pc = "perceived"
    /\ CycleDecide("run_cycle", u, pick)
RunCycleAct == CycleAct("run_cycle")
RunCycleReturn == CycleReturn("run_cycle")

\* LearningAgent.run_cycle_with_feedback(observation, reward)
RunCycleWithFeedback(observation, reward) ==
    CycleBegin("run_cycle_with_feedback", observation, reward)

\* the test of line 172 as a truth test: a reward of 0 counts as none
reward_is_truthy(reward) == reward # None /\ reward # Some(Zero)

\* reward is not None
reward_is_not_None(reward) == reward # None

\* if reward is not None: self.state = LEARNING; self.learn(reward)
FeedbackLearn ==
    /\ cyc.method = "run_cycle_with_feedback"
    /\ pc = "perceived"
    /\ reward_is_not_None(cyc.reward)
    /\ LET l == learn([Self EXCEPT !.state = "learning"], cyc.reward[1])
       IN  /\ Store(l.self)
           /\ IF l.ret.kind = "raise"
              THEN CycleOver(l.ret)
              ELSE /\ pc' = "learned"
                   /\ cyc' = [cyc EXCEPT !.calls = Append(@, "learn")]
                   /\ UNCHANGED call
    /\ UNCHANGED history

FeedbackDecide(u, pick) ==
    /\ \/ pc = "learned"
       \/ pc = "perceived" /\ ~reward_is_not_None(cyc.reward)
    /\ CycleDecide("run_cycle_with_feedback", u, pick)
FeedbackAct == CycleAct("run_cycle_with_feedback")
FeedbackReturn == CycleReturn("run_cycle_with_feedback")

\* ---- the cycle methods as whole calls

\* from action = self.decide() to the return of a cycle method
cycle_decide_act(self, u, pick) ==
    LET d == self_decide(self, u, pick)
    IN  IF d.ret.kind = "raise" THEN [ self |-> d.self, ret |-> d.ret ]
        ELSE IF d.ret.kind = "Action"
        THEN LET r == self_act([d.self EXCEPT !.state = "acting"], d.ret)
             IN  [ self |-> [r.self EXCEPT
                               !.actions_taken = Append(@, d.ret),
                               !.state = "idle"],
                   ret |-> r.ret ]
        ELSE [ self |-> [d.self EXCEPT !.state = "idle"], ret |-> RetNone ]

\* run_cycle(observation), with the outcomes u and pick of the random calls
run_cycle(self, observation, u, pick) ==
    cycle_decide_act(
        self_perceive([self EXCEPT !.state = "thinking"], observation),
        u, pick)

\* run_cycle_with_feedback(observation, reward)
run_cycle_with_feedback(self, observation, reward, u, pick) ==
    LET p == self_perceive([self EXCEPT !.state = "thinking"], observation)
    IN  IF reward_is_not_None(reward)
        THEN LET l == learn([p EXCEPT !.state = "learning"], reward[1])
             IN  IF l.ret.kind = "raise" THEN l
                 ELSE cycle_decide_act(l.self, u, pick)
        ELSE cycle_decide_act(p, u, pick)

\* ------------------------------------------------------- specifications

\* the reward argument of run_cycle_with_feedback: None when omitted
OptRewards == {None} \cup { Some(r) : r \in Rewards }

\* a driver that calls perceive, decide and learn directly, in any order
Next ==
    \/ \E o \in Payloads : CallPerceive(o)
    \/ \E u \in RandomDraws, k \in Picks : CallDecide(u, k)
    \/ \E r \in Rewards : CallLearn(r)
Spec == Init /\ [][Next]_vars

\* a driver that also calls reset; its inputs are fewer
ResetPayloads == { StrData("s1"), StrData("s2") }
ResetRewards == { RInt(10) }
NextReset ==
    \/ \E o \in ResetPayloads : CallPerceive(o)
    \/ \E u \in RandomDraws, k \in Picks : CallDecide(u, k)
    \/ \E r \in ResetRewards : CallLearn(r)
    \/ CallReset
SpecReset == Init /\ [][NextReset]_vars

\* a driver that only calls run_cycle_with_feedback
NextFeedback ==
    \/ \E o \in Payloads, r \in OptRewards : RunCycleWithFeedback(o, r)
    \/ FeedbackLearn
    \/ \E u \in RandomDraws, k \in Picks : FeedbackDecide(u, k)
    \/ FeedbackAct
    \/ FeedbackReturn
SpecFeedback == Init /\ [][NextFeedback]_vars

\* the training loop of examples/learning_agent_example.py:
\*   while not env.is_done():
\*       agent.perceive(obs); action = agent.decide()
\*       if action: reward = env.step(action.name); agent.learn(reward)
\* (a decide that raises ends the program)
NextTrain ==
    \/ /\ \/ call.op \in {"init", "learn"}
          \/ call.op = "decide" /\ call.ret.kind = "None"
       /\ \E o \in Payloads : CallPerceive(o)
    \/ /\ call.op = "perceive"
       /\ \E u \in RandomDraws, k \in Picks : CallDecide(u, k)
    \/ /\ call.op = "decide" /\ call.ret.kind = "Action"
       /\ \E r \in Rewards : CallLearn(r)
SpecTrain == Init /\ [][NextTrain]_vars

\* the scenario of tests/test_qlearning_agent.py test_learn_updates_q_table,
\* for every two payloads and every reward:
\*   perceive(o1); decide(); perceive(o2); learn(r)
NextScenario ==
    \/ /\ call.op = "init"
       /\ \E o \in Payloads : CallPerceive(o)
    \/ /\ call.op = "perceive" /\ Len(observations) = 1
       /\ \E u \in RandomDraws, k \in Picks : CallDecide(u, k)
    \/ /\ call.op = "decide" /\ call.ret.kind # "raise"
       /\ \E o \in Payloads : CallPerceive(o)
    \/ /\ call.op = "perceive" /\ Len(observations) = 2
       /\ \E r \in Rewards : CallLearn(r)
SpecScenario == Init /\ [][NextScenario]_vars

\* ---- drivers of either class of agent

\* the keys and the functions of add_rule, the Actions of set_default_action
RuleKeys == { "hot", "{'type': 'hot'}" }
RuleFns == { "f", "g" }
DefaultActions == { RuleAction("wait", DictData(<< >>)),
                    RuleAction("idle", DictData(<< >>)) }
\* payloads for a ReactiveAgent: a str that is a rule key, a str that is none,
\* a dict whose type is a rule key and whose str is one too, a dict whose type
\* is no rule key, a dict without a type
ReactivePayloads ==
    { StrData("hot"), StrData("s1"),
      DictData(<< <<"type", "hot">> >>),
      DictData(<< <<"type", "cold">> >>),
      DictData(<< <<"n", "hot">> >>) }

\* a driver of a ReactiveAgent that calls add_rule, set_default_action,
\* perceive and decide, in any order
NextReactive ==
    \/ \E k \in RuleKeys, f \in RuleFns : CallAddRule(k, f)
    \/ \E a \in DefaultActions : CallSetDefaultAction(a)
    \/ \E o \in ReactivePayloads : CallPerceive(o)
    \/ CallDecide(Zero, 0)
SpecReactive == InitReactive /\ [][NextReactive]_vars

\* a QLearningAgent that never explores, or a ReactiveAgent
InitAgents ==
    \/ /\ Init
       /\ available_actions = <<"a", "b">>
       /\ exploration_rate = Zero
    \/ InitReactive

\* a driver that only calls run_cycle, after giving a ReactiveAgent its rules
CyclePayloads ==
    IF cls = "ReactiveAgent" THEN ReactivePayloads ELSE Payloads
NextCycle ==
    \/ /\ observations = << >>
       /\ \E f \in RuleFns : CallAddRule("hot", f)
    \/ /\ observations = << >>
       /\ \E a \in DefaultActions : CallSetDefaultAction(a)
    \/ \E o \in CyclePayloads : RunCycle(o)
    \/ \E u \in RandomDraws, k \in Picks : RunCycleDecide(u, k)
    \/ RunCycleAct
    \/ RunCycleReturn
SpecCycle == (Init \/ InitReactive) /\ [][NextCycle]_vars

\* an environment that shows the states s1 and s2 in turn
TurnPayloads ==
    { IF Len(observations) % 2 = 0 THEN StrData("s1") ELSE StrData("s2") }

\* a driver that calls every public method, in any order (run_cycle on a
\* ReactiveAgent, run_cycle_with_feedback, which runs the same steps, on a
\* QLearningAgent); its inputs are fewer
AgentsPayloads ==
    IF cls = "ReactiveAgent" THEN { StrData("hot"), StrData("s1") }
    ELSE TurnPayloads
AgentsRewards == { RInt(10) }
\* the Actions a caller hands to act directly
AgentsActArgs ==
    IF cls = "ReactiveAgent" THEN { RuleAction("f", StrData("hot")) }
    ELSE { Action("a", One) }

NextAgents ==
    \/ \E o \in AgentsPayloads : CallPerceive(o)
    \/ \E u \in RandomDraws, k \in Picks : CallDecide(u, k)
    \/ \E a \in AgentsActArgs : CallAct(a)
    \/ /\ cls = "QLearningAgent"
       /\ \E r \in AgentsRewards : CallLearn(r)
    \/ CallReset
    \/ \E f \in RuleFns : CallAddRule("hot", f)
    \/ \E a \in DefaultActions : CallSetDefaultAction(a)
    \/ /\ cls = "ReactiveAgent"
       /\ \E o \in AgentsPayloads : RunCycle(o)
    \/ \E u \in RandomDraws, k \in Picks : RunCycleDecide(u, k)
    \/ RunCycleAct
    \/ RunCycleReturn
    \/ /\ cls = "QLearningAgent"
       /\ \E o \in AgentsPayloads, r \in {None} \cup { Some(x) : x \in AgentsRewards } :
            RunCycleWithFeedback(o, r)
    \/ FeedbackLearn
    \/ \E u \in RandomDraws, k \in Picks : FeedbackDecide(u, k)
    \/ FeedbackAct
    \/ FeedbackReturn
SpecAgents == InitAgents /\ [][NextAgents]_vars

\* the driver of every public method, with get_q_table_summary, and with a
\* QLearningAgent that has no action: its decide raises
InitStates ==
    \/ /\ Init
       /\ \/ available_actions = <<"a", "b">> /\ exploration_rate = Zero
          \/ available_actions = << >>
    \/ InitReactive
NextStates ==
    \/ NextAgents
    \/ CallSummary
SpecStates == InitStates /\ [][NextStates]_vars

\* a loop that perceives, rewards the previous action, then decides (the
\* order of run_cycle_with_feedback, by direct calls):
\*   for obs in observations:
\*       agent.perceive(obs); agent.learn(reward); agent.decide()
\* (a decide that raises ends the program)
NextLoop ==
    \/ /\ \/ call.op = "init"
          \/ call.op = "decide" /\ call.ret.kind # "raise"
       /\ \E o \in Payloads : CallPerceive(o)
    \/ /\ call.op = "perceive"
       /\ \E r \in Rewards : CallLearn(r)
    \/ /\ call.op = "learn"
       /\ \E u \in RandomDraws, k \in Picks : CallDecide(u, k)
SpecLoop == Init /\ [][NextLoop]_vars

\* a driver of a QLearningAgent that explores (rate 1/5) and calls every
\* public method, in any order, in an environment that shows s1 and s2 in
\* turn
InitTable ==
    /\ Init
    /\ available_actions = <<"a", "b">>
    /\ exploration_rate = <<1, 5>>
NextTable ==
    \/ \E o \in TurnPayloads : CallPerceive(o)
    \/ \E u \in RandomDraws, k \in Picks : CallDecide(u, k)
    \/ CallAct(Action("a", One))
    \/ \E r \in ResetRewards : CallLearn(r)
    \/ CallReset
    \/ \E o \in TurnPayloads : RunCycle(o)
    \/ \E u \in RandomDraws, k \in Picks : RunCycleDecide(u, k)
    \/ RunCycleAct
    \/ RunCycleReturn
    \/ \E o \in TurnPayloads, r \in {None} \cup { Some(x) : x \in ResetRewards } :
         RunCycleWithFeedback(o, r)
    \/ FeedbackLearn
    \/ \E u \in RandomDraws, k \in Picks : FeedbackDecide(u, k)
    \/ FeedbackAct
    \/ FeedbackReturn
SpecTable == InitTable /\ [][NextTable]_vars

\* a driver that perceives dict payloads over the keys x and y, in either
\* insertion order, and str payloads, and decides without exploring
CanonValues == 1..2
CanonPayloads ==
    { DictData(<< >>) }
    \cup { DictData(<< <<k, v>> >>) : k \in {"x", "y"}, v \in CanonValues }
    \cup { DictData(<< <<"x", v>>, <<"y", w>> >>) : v, w \in CanonValues }
    \cup { DictData(<< <<"y", w>>, <<"x", v>> >>) : v, w \in CanonValues }
    \cup { StrData("s1"), StrData("[('x', 1)]") }
InitCanon ==
    /\ Init
    /\ available_actions = <<"a", "b">>
    /\ exploration_rate = Zero
NextCanon ==
    \/ \E o \in CanonPayloads : CallPerceive(o)
    \/ \E u \in RandomDraws, k \in Picks : CallDecide(u, k)
SpecCanon == InitCanon /\ [][NextCanon]_vars

\* a driver that calls perceive, decide, learn and get_q_table_summary
\* directly, in any order
NextSummary ==
    \/ \E o \in TurnPayloads : CallPerceive(o)
    \/ \E u \in RandomDraws, k \in Picks : CallDecide(u, k)
    \/ \E r \in Rewards : CallLearn(r)
    \/ CallSummary
SpecSummary == Init /\ [][NextSummary]_vars

\* ---- run_agent(query), one step per node of the graph

\* the most steps of the model node in one run
MaxSteps == 3

\* initial_state, and the entry point of the graph
RunAgent(query) ==
    /\ node = "start"
    /\ messages' = <<HumanMessage(query)>>
    /\ next_step' = "agent"
    /\ node' = "agent"
    /\ UNCHANGED <<final_state, answer>>
    /\ UNCHANGED <<config, fields, pc, cyc, call, history>>

\* the node "agent" and the routing after it; the stream yields its update
AgentNode(response) ==
    /\ node = "agent"
    /\ Len(SelectSeq(messages, LAMBDA m : m.type = "ai")) < MaxSteps
    /\ LET update == call_model(GraphState, response)
           st == [ messages |-> add_messages(GraphState, update),
                   next_step |-> update.next_step ]
       IN  /\ messages' = st.messages
           /\ next_step' = st.next_step
           /\ final_state' = Some([ node |-> "agent",
                                    messages |-> update.messages ])
           /\ node' = conditional_edges(should_continue(st))
    /\ UNCHANGED answer
    /\ UNCHANGED <<config, fields, pc, cyc, call, history>>

\* the node "tools" and the edge back to "agent"
ToolsNode ==
    /\ node = "tools"
    /\ LET update == tool_node(GraphState)
       IN  /\ messages' = add_messages(GraphState, update)
           /\ final_state' = Some([ node |-> "tools",
                                    messages |-> update.messages ])
    /\ node' = "agent"
    /\ UNCHANGED <<next_step, answer>>
    /\ UNCHANGED <<config, fields, pc, cyc, call, history>>

\* the stream is exhausted: run_agent returns
RunAgentReturn ==
    /\ node = "END"
    /\ answer' = Some(IF final_state = None THEN "No response generated"
                      ELSE final_response(final_state[1].messages))
    /\ node' = "returned"
    /\ UNCHANGED <<messages, next_step, final_state>>
    /\ UNCHANGED <<config, fields, pc, cyc, call, history>>

\* a run of run_agent; in the last step of the model that the bound allows,
\* the model calls no tool
NextGraph ==
    \/ RunAgent("q")
    \/ \E r \in Responses :
         /\ \/ r.tool_calls = << >>
            \/ Len(SelectSeq(messages, LAMBDA m : m.type = "ai")) + 1 < MaxSteps
         /\ AgentNode(r)
    \/ ToolsNode
    \/ RunAgentReturn
SpecGraph == InitReactive /\ [][NextGraph]_vars

\* ================================================================ claims

Last(seq) == seq[Len(seq)]
Keys(q) == DOMAIN q
\* the step appends one experience record: learn has performed an update
Updates == Len(experience') = Len(experience) + 1
\* the values of q2 at the keys other than key are those of q (0 when new)
SameElsewhere(q, q2, key) ==
    /\ Keys(q) \subseteq Keys(q2)
    /\ \A k \in Keys(q2) \ {key} : q2[k] = QGet(q, k)
\* the actions whose value for state st is maximal in q (missing entries 0)
Maximizers(q, st, acts) ==
    { a \in SeqRange(acts) :
        \A b \in SeqRange(acts) : RLeq(QGet(q, <<st, b>>), QGet(q, <<st, a>>)) }
\* action d strictly dominates every other action for state st
Dominates(q, st, acts, d) ==
    /\ d \in SeqRange(acts)
    /\ \A b \in SeqRange(acts) \ {d} :
         RLess(QGet(q, <<st, b>>), QGet(q, <<st, d>>))

\* ---- C1
\* C1: under a driver that only calls run_cycle_with_feedback, when the
\* previous cycle decided an action a_prev in state s_prev (it returned the
\* result of act) and this cycle has a reward, the learn step appends a record
\* (s_prev, a_prev, reward, next_state = the state just perceived), writes the
\* table at (s_prev, a_prev) and at no other key, and finds last_action still
\* a_prev: decide runs only after it.
C1_FeedbackCreditsPreviousDecision ==
    [][ /\ (pc = "perceived" /\ pc' = "learned" /\ call.ret.kind = "result") =>
             /\ Updates
             /\ Last(experience').state = chosen[1]
             /\ Last(experience').action = chosen[2]
             /\ Last(experience').reward = cyc.reward[1]
             /\ Last(experience').next_state = current_state
             /\ current_state = Some(state_from_observation(cyc.observation))
             /\ Last(observations) = cyc.observation
             /\ q_table'[chosen] = Last(experience').q_value
             /\ SameElsewhere(q_table, q_table', chosen)
             /\ last_action = Some(chosen[2])
             /\ last_action' = last_action
        /\ (pc' = "decided" /\ cyc.reward # None) => pc = "learned"
      ]_vars

C1_Witness ==
    /\ pc = "learned"
    /\ call.op = "run_cycle_with_feedback"
    /\ call.ret.kind = "result"
    /\ experience # << >>
    /\ Last(experience).state = "s1"
    /\ Last(experience).next_state = Some("s2")
    /\ q_table[<<"s1", Last(experience).action>>] # Zero

\* ---- C2
\* C2: under any sequence of direct calls, whenever learn performs an update,
\* the entry it updates is (s, a) with a the action decide chose while
\* current_state was s.
C2_UpdatedPairWasDecidedTogether ==
    [][ (call'.op = "learn" /\ Updates) =>
          <<Last(experience').state, Last(experience').action>> = chosen
      ]_vars

\* ---- C3
\* C3: under the training loop (perceive; decide; learn), every learn call
\* performs an update, the first one included, and the entry it updates is
\* (s_t, a_t): the state in which decide chose a_t.
C3_TrainingLoopCreditsDecisionState ==
    [][ call'.op = "learn" =>
          /\ Updates
          /\ Last(experience').state = chosen[1]
          /\ Last(experience').action = chosen[2]
          /\ q_table'[chosen] = Last(experience').q_value
      ]_vars

\* ---- C4
\* C4: a learn(reward) that passes its guard writes, at (last_state,
\* last_action), (1 - lr) * Q_old + lr * (reward + gamma * max_a Q[current_state, a]),
\* which is Q_old + lr * (reward + gamma * max - Q_old), with Q_old and the
\* maximum read from the table before the write and missing entries read as
\* 0; every other entry keeps its value; with lr = 1/2, gamma = 9/10, zeros
\* and reward 10 the new value is 5.
C4_LearnAppliesUpdateRule ==
    [][ \A r \in Rewards :
          (CallLearn(r) /\ ~Falsy(last_state) /\ ~Falsy(last_action)) =>
            LET key == <<last_state[1], last_action[1]>>
                st == IF current_state = None THEN "" ELSE current_state[1]
                Q_old == QGet(q_table, key)
                max == RMax({ QGet(q_table, <<st, a>>) :
                                a \in SeqRange(available_actions) })
                expected ==
                    RAdd(RMul(RSub(One, learning_rate), Q_old),
                         RMul(learning_rate,
                              RAdd(r, RMul(discount_factor, max))))
            IN  /\ Updates
                /\ q_table'[key] = expected
                /\ SameElsewhere(q_table, q_table', key)
                /\ ( /\ learning_rate = <<1, 2>>
                     /\ discount_factor = <<9, 10>>
                     /\ Q_old = Zero /\ max = Zero /\ r = RInt(10) )
                   => q_table'[key] = RInt(5)
      ]_vars

\* two updates of one entry whose next state is its own state: 5, then
\* 5 + 1/2 * (10 + 9/10 * 5 - 5) = 39/4
C4_Witness ==
    /\ call.op = "learn"
    /\ Len(experience) = 2
    /\ experience[1].state = experience[2].state
    /\ experience[1].action = experience[2].action
    /\ experience[1].q_value = RInt(5)
    /\ experience[2].q_value = <<39, 4>>
    /\ q_table[<<experience[2].state, experience[2].action>>] = <<39, 4>>

\* ---- C5
\* C5: when learn has been called and decide has never been called, whatever
\* was perceived and whatever the reward, the Q-table has no key, the
\* experience log is empty and learn returned normally.
C5_LearnBeforeAnyDecideIsNoOp ==
    (call.op = "learn" /\ ~ever_decided) =>
        /\ q_table = EmptyTable
        /\ experience = << >>
        /\ call.ret = RetNone

\* learn was called with last_state set: only last_action stopped it
C5_Witness ==
    /\ call.op = "learn"
    /\ ~ever_decided
    /\ ~Falsy(last_state)
    /\ ~Falsy(current_state)
    /\ q_table = EmptyTable

\* ---- C6
\* C6: for an agent that has perceived and decided, a learn called after a
\* reset and before any decide following that reset changes neither the
\* Q-table nor the experience log.
C6_LearnAfterResetIsNoOp ==
    [][ ( /\ call'.op = "learn"
          /\ chosen # None
          /\ resets > 0
          /\ ~decided_since_reset ) =>
            (q_table' = q_table /\ experience' = experience)
      ]_vars

\* ---- C7
\* the scenario's instance: actions [a, b], perceive("s1"), decide(),
\* perceive("s2") have run, and the step is learn(10)
ScenarioLearn ==
    /\ available_actions = <<"a", "b">>
    /\ observations = <<StrData("s1"), StrData("s2")>>
    /\ CallLearn(RInt(10))

\* C7 as stated: in the scenario, learn(10) adds exactly one key to the
\* Q-table, (s1, last_action), and the experience log has length 1.
C7_LearnAddsExactlyOneKey ==
    [][ ScenarioLearn =>
          /\ Keys(q_table') \ Keys(q_table) = { <<"s1", last_action[1]>> }
          /\ Len(experience') = 1
      ]_vars

\* C7 as amended: in the scenario, learn(10) leaves the experience log with
\* length 1 and the table with (s1, last_action) = learning_rate * 10 and 0
\* elsewhere; the keys it adds are (s2, a) and (s2, b), read for the maximum,
\* and also (s1, last_action) when decide explored (the table was empty);
\* after an exploit decide (s1, a) and (s1, b) were keys already.
C7_LearnAddsUpdatedAndNextStateKeys ==
    [][ ScenarioLearn =>
          LET upd == <<"s1", last_action[1]>>
              nxt == { <<"s2", "a">>, <<"s2", "b">> }
              added == Keys(q_table') \ Keys(q_table)
          IN  /\ Len(experience') = 1
              /\ \/ Keys(q_table) = {} /\ added = {upd} \cup nxt
                 \/ /\ Keys(q_table) = { <<"s1", "a">>, <<"s1", "b">> }
                    /\ added = nxt
              /\ Keys(q_table) \subseteq Keys(q_table')
              /\ q_table'[upd] = RMul(learning_rate, RInt(10))
              /\ \A k \in Keys(q_table') \ {upd} : q_table'[k] = Zero
      ]_vars

\* the scenario after an explore decide: three keys, all new
C7_Witness ==
    /\ call.op = "learn"
    /\ available_actions = <<"a", "b">>
    /\ observations = <<StrData("s1"), StrData("s2")>>
    /\ Len(experience) = 1
    /\ experience[1].reward = RInt(10)
    /\ Cardinality(Keys(q_table)) = 3

\* ---- C8
\* C8: with exploration_rate = 0, when decide has run in a state for which
\* one configured action's value is strictly greater than every other's, it
\* returned that action, whatever the random source gave.
C8_NoExplorationPicksDominantAction ==
    \A d \in SeqRange(available_actions) :
        ( /\ call.op = "decide"
          /\ exploration_rate = Zero
          /\ ~Falsy(current_state)
          /\ Dominates(q_table, current_state[1], available_actions, d) ) =>
            (call.ret.kind = "Action" /\ call.ret.name = d)

\* the dominant action is not the first-registered one, and the draw is not 0
C8_Witness ==
    /\ call.op = "decide"
    /\ call.u # Zero
    /\ exploration_rate = Zero
    /\ ~Falsy(current_state)
    /\ Dominates(q_table, current_state[1], available_actions, "b")
    /\ call.ret.name = "b"

\* ---- C9
\* C9: when decide took the exploit branch (the draw was not below the
\* exploration rate), the action returned has a maximal value for the
\* current state among the configured actions; and in every state each such
\* maximizer is returned by _get_best_action for some outcome of
\* random.choice, also when all values are equal.
C9_ExploitPicksAnyMaximizer ==
    /\ ( /\ call.op = "decide"
         /\ call.ret.kind = "Action"
         /\ ~RLess(call.u, exploration_rate) ) =>
           call.ret.name \in
               Maximizers(q_table, current_state[1], available_actions)
    /\ (~Falsy(current_state) /\ available_actions # << >>) =>
           \A m \in Maximizers(q_table, current_state[1], available_actions) :
               \E k \in Picks :
                   get_best_action(Self, current_state[1], k).name = m

\* two of three actions are maximal and the one returned is the later one
C9_Witness ==
    /\ call.op = "decide"
    /\ ~RLess(call.u, exploration_rate)
    /\ ~Falsy(current_state)
    /\ Maximizers(q_table, current_state[1], available_actions) = {"b", "c"}
    /\ call.ret.name = "c"

\* ---- C10
\* C10: when decide has run with a non-empty action set and a current state
\* (any key perceive has derived, the empty string included), it returned an
\* Action whose name is a configured action, last_action is that name, and
\* the confidence is 1 - exploration_rate, in the explore and in the exploit
\* branch.
C10_DecideReturnsConfiguredAction ==
    ( /\ call.op = "decide"
      /\ available_actions # << >>
      /\ current_state # None ) =>
        /\ call.ret.kind = "Action"
        /\ call.ret.name \in SeqRange(available_actions)
        /\ last_action = Some(call.ret.name)
        /\ RAdd(call.ret.confidence, exploration_rate) = One

\* ---- C11
\* C11: as long as perceive has never been called on a Q-learning agent, every
\* decide() has returned None without raising, and last_action, the Q-table,
\* both histories and the experience log are as the constructor left them,
\* whatever else was called; and a cycle method reaches its decide, and
\* appends to actions_taken, only once an observation has been perceived.
C11_DecideBeforePerceiveReturnsNone ==
    cls = "QLearningAgent" =>
        /\ ~ever_perceived =>
              /\ call.op = "decide" => call.ret = RetNone
              /\ last_action = None
              /\ q_table = EmptyTable
              /\ observations = << >>
              /\ actions_taken = << >>
              /\ experience = << >>
              /\ pc = "idle"
        /\ (pc \in {"decided", "acted"} \/ actions_taken # << >>) =>
              (ever_perceived /\ current_state # None)

\* decide has returned on an agent that never perceived, after a reset
C11_Witness ==
    /\ cls = "QLearningAgent"
    /\ call.op = "decide"
    /\ ~ever_perceived
    /\ resets > 0
    /\ call.ret = RetNone

\* ---- C12
\* C12: whatever payload was perceived, the empty string included, a decide()
\* on an agent with a current state key and a non-empty action set returns an
\* Action; and a learn() on an agent whose last_state is a key (the empty
\* string included) and whose last_action is set performs the update.
C12_EveryDerivedKeyIsAState ==
    [][ /\ ( /\ call'.op = "decide"
             /\ current_state' # None
             /\ available_actions # << >> ) => call'.ret.kind = "Action"
        /\ ( /\ \E r \in Rewards : CallLearn(r)
             /\ last_state # None
             /\ last_action # None ) => Updates
      ]_vars

\* ---- C13
\* C13: for an agent of either class and from every state the driver reaches,
\* reset() leaves state = idle and both histories empty, and does not change
\* the Q-table, the rule table, the default action, the hyperparameters or
\* the action set; a second reset right after it changes nothing.
C13_ResetClearsHistoryOnly ==
    [][ CallReset =>
          /\ state' = "idle"
          /\ observations' = << >>
          /\ actions_taken' = << >>
          /\ UNCHANGED <<q_table, rules, default_action>>
          /\ UNCHANGED <<cls, available_actions, learning_rate,
                         discount_factor, exploration_rate>>
          /\ LET after == Self' IN reset(after) = after
      ]_vars

\* a reset of a Q-learning agent that has learned and has run a cycle
C13_Witness ==
    /\ call.op = "reset"
    /\ cls = "QLearningAgent"
    /\ observations = << >>
    /\ actions_taken = << >>
    /\ experience # << >>
    /\ \E k \in Keys(q_table) : q_table[k] # Zero

\* ---- C14
\* C14: a decide() called right after reset() returns what a freshly
\* constructed agent with the same configuration returns: the default action
\* (None when there is none) for a Reactive agent, None for a Q-learning
\* agent.
C14_DecideAfterResetIsFresh ==
    [][ (call.op = "reset" /\ call'.op = "decide") =>
          call'.ret = IF cls = "ReactiveAgent" THEN default_action ELSE RetNone
      ]_vars

\* ---- C15
\* C15: in every run_cycle(observation), for an agent of either class: the
\* first step leaves state = thinking with the observation perceived; decide
\* runs next, on the agent as perceive left it, with state still thinking; act
\* runs only after a decide that returned an Action, on that Action, with
\* state = acting; a normal return leaves state = idle and returns the result
\* of act after the calls perceive, decide, act, or None after the calls
\* perceive, decide when decide returned None.
C15_RunCycleOrder ==
    [][ /\ (pc = "idle" /\ pc' = "perceived") =>
             /\ state' = "thinking"
             /\ Self' = self_perceive([Self EXCEPT !.state = "thinking"],
                                      cyc'.observation)
             /\ cyc'.calls = <<"perceive">>
        /\ (pc # "decided" /\ pc' = "decided") =>
             /\ pc = "perceived"
             /\ state' = "thinking"
             /\ cyc'.calls = <<"perceive", "decide">>
             /\ \E u \in RandomDraws, k \in Picks :
                    cyc'.action = self_decide(Self, u, k).ret
        /\ (pc # "acted" /\ pc' = "acted") =>
             /\ pc = "decided"
             /\ cyc.action.kind = "Action"
             /\ state' = "acting"
             /\ cyc'.action = cyc.action
             /\ cyc'.result = self_act(Self, cyc.action).ret
             /\ cyc'.calls = <<"perceive", "decide", "act">>
        /\ (pc # "idle" /\ pc' = "idle" /\ call'.ret.kind # "raise") =>
             /\ state' = "idle"
             /\ call'.op = "run_cycle"
             /\ IF cyc.action.kind = "Action"
                THEN /\ cyc.calls = <<"perceive", "decide", "act">>
                     /\ call'.ret = cyc.result
                     /\ call'.ret.kind = "result"
                     /\ actions_taken' = Append(actions_taken, cyc.action)
                ELSE /\ cyc.calls = <<"perceive", "decide">>
                     /\ call'.ret = RetNone
                     /\ actions_taken' = actions_taken
      ]_vars

\* a cycle in which decide returned None has returned, after one that acted
C15_Witness ==
    /\ call.op = "run_cycle"
    /\ call.ret = RetNone
    /\ pc = "idle"
    /\ state = "idle"
    /\ Len(observations) = 2
    /\ Len(actions_taken) = 1

\* ---- C16
\* the number of calls of learn among the calls of a cycle
LearnCalls(calls) == Cardinality({ i \in 1..Len(calls) : calls[i] = "learn" })

\* C16: in every run_cycle_with_feedback(observation, reward): the first step
\* leaves state = thinking with the observation perceived; learn is called,
\* with the reward, exactly when a reward was supplied (10, 0 or -1) and never
\* when it was omitted; it is called once, after perceive and before decide,
\* with state = learning; a normal return leaves state = idle.
C16_FeedbackLearnsIffRewarded ==
    [][ /\ (pc = "idle" /\ pc' = "perceived") =>
             /\ state' = "thinking"
             /\ cyc'.calls = <<"perceive">>
        /\ (pc # "learned" /\ pc' = "learned") =>
             /\ pc = "perceived"
             /\ cyc.reward # None
             /\ state' = "learning"
             /\ Self' = learn([Self EXCEPT !.state = "learning"],
                              cyc.reward[1]).self
             /\ cyc'.calls = <<"perceive", "learn">>
        /\ (pc # "decided" /\ pc' = "decided") =>
             /\ cyc.reward # None => (pc = "learned" /\ state = "learning")
             /\ cyc.reward = None => (pc = "perceived" /\ state = "thinking")
             /\ cyc'.calls = IF cyc.reward = None
                             THEN <<"perceive", "decide">>
                             ELSE <<"perceive", "learn", "decide">>
        /\ (pc # "idle" /\ pc' = "idle" /\ call'.ret.kind # "raise") =>
             /\ state' = "idle"
             /\ call'.op = "run_cycle_with_feedback"
             /\ LearnCalls(cyc.calls) = IF cyc.reward = None THEN 0 ELSE 1
      ]_vars

\* learn has run in a cycle whose reward is 0
C16_Witness ==
    /\ pc = "learned"
    /\ cyc.reward = Some(Zero)
    /\ state = "learning"
    /\ cyc.calls = <<"perceive", "learn">>
    /\ experience # << >>
    /\ Last(experience).reward = Zero

\* ---- C17
\* what act must report for the Action named name, from the fields before
\* the call
ActReport(name) ==
    IF cls = "QLearningAgent"
    THEN /\ call'.ret.action = name
         /\ call'.ret.state = current_state
         /\ call'.ret.q_value =
              IF current_state # None
                 /\ <<current_state[1], name>> \in Keys(q_table)
              THEN q_table[<<current_state[1], name>>] ELSE Zero
    ELSE /\ call'.ret.action = name
         /\ call'.ret.success = TRUE

\* C17: a direct act(action) on an agent of either class changes no field of
\* the agent (observations, actions_taken, state, Q-table and its key set,
\* current_state, last_state, last_action, experience log, rules, default
\* action, current observation); inside a cycle act changes none of them
\* either (the cycle sets state); and the Q-learning result reports the table
\* value of (current_state, action.name), 0 when that key is absent.
C17_ActChangesNothing ==
    [][ /\ \A a \in AgentsActArgs :
             CallAct(a) => (UNCHANGED fields /\ ActReport(a.name))
        /\ (pc = "decided" /\ pc' = "acted") =>
             /\ UNCHANGED <<observations, actions_taken, experience, q_table,
                            current_state, last_state, last_action, rules,
                            default_action, current_observation>>
             /\ cls = "QLearningAgent" =>
                   cyc'.result.q_value =
                       QGet(q_table, <<current_state[1], cyc.action.name>>)
      ]_vars

\* act has reported 0 for a key that the table, not empty, does not hold
C17_Witness ==
    /\ call.op = "act"
    /\ cls = "QLearningAgent"
    /\ current_state # None
    /\ q_table # EmptyTable
    /\ <<current_state[1], call.ret.action>> \notin Keys(q_table)
    /\ call.ret.q_value = Zero

\* ---- C18
\* the type values of a dict payload (at most one) that are registered keys
TypeKeys(data) ==
    IF data.kind # "dict" THEN {}
    ELSE { data.items[i][2] : i \in { j \in 1..Len(data.items) :
                                        /\ data.items[j][1] = "type"
                                        /\ data.items[j][2] \in DOMAIN rules } }
\* the payloads of the driver whose str is the key
WithStr(key) ==
    CASE key = "hot" -> { StrData("hot") }
      [] key = "{'type': 'hot'}" -> { DictData(<< <<"type", "hot">> >>) }
      [] OTHER -> {}
\* decide invoked exactly the rule registered under key, once, with data,
\* and returned what the rule returned
InvokedOnly(key, data) ==
    /\ call.invoked = << <<rules[key], data>> >>
    /\ call.ret = RuleAction(rules[key], data)

\* C18: when a Reactive agent's decide() has returned: with no current
\* observation it returned the default action and invoked no rule; else, if
\* the payload is a dict whose type is a registered key, it invoked that rule
\* only, once, with the whole payload, also when the str of the payload is a
\* registered key; else, if the str of the payload is a registered key, it
\* invoked that rule only; else it returned the default action (None when
\* none was set) and invoked no rule.
C18_ReactiveDecideOrder ==
    (cls = "ReactiveAgent" /\ call.op = "decide") =>
        IF current_observation = None
        THEN call.ret = default_action /\ call.invoked = << >>
        ELSE LET data == current_observation[1]
                 StrKeys == { k \in DOMAIN rules : data \in WithStr(k) }
             IN  IF TypeKeys(data) # {}
                 THEN \A k \in TypeKeys(data) : InvokedOnly(k, data)
                 ELSE IF StrKeys # {}
                 THEN \A k \in StrKeys : InvokedOnly(k, data)
                 ELSE call.ret = default_action /\ call.invoked = << >>

\* the payload's type and the payload's str are both registered, under
\* different functions, and the rule of the type was invoked
C18_Witness ==
    /\ cls = "ReactiveAgent"
    /\ call.op = "decide"
    /\ current_observation = Some(DictData(<< <<"type", "hot">> >>))
    /\ DOMAIN rules = { "hot", "{'type': 'hot'}" }
    /\ rules["hot"] = "f"
    /\ rules["{'type': 'hot'}"] = "g"
    /\ default_action # RetNone
    /\ call.invoked = << <<"f", DictData(<< <<"type", "hot">> >>)>> >>

\* ---- C19
\* C19: on a Reactive agent, add_rule(k, f) leaves f under k, whatever was
\* under k before, keeps every rule under another key, and adds one key or,
\* when k was a key, none; set_default_action(a) leaves a as the default
\* action, whatever it was; neither changes the other table, the histories,
\* the state or the current observation; and a decide that invokes a rule
\* invokes the function now under its key.
C19_LastRuleAndDefaultWin ==
    [][ /\ \A k \in RuleKeys, f \in RuleFns :
             CallAddRule(k, f) =>
               /\ DOMAIN rules' = (DOMAIN rules) \cup {k}
               /\ rules'[k] = f
               /\ \A j \in (DOMAIN rules) \ {k} : rules'[j] = rules[j]
               /\ Cardinality(DOMAIN rules') =
                    Cardinality(DOMAIN rules) + (IF k \in DOMAIN rules THEN 0 ELSE 1)
               /\ UNCHANGED <<default_action, observations, actions_taken,
                              state, current_observation>>
        /\ \A a \in DefaultActions :
             CallSetDefaultAction(a) =>
               /\ default_action' = a
               /\ UNCHANGED <<rules, observations, actions_taken, state,
                              current_observation>>
        /\ (call'.op = "decide" /\ call'.invoked # << >>) =>
               \E k \in DOMAIN rules :
                   call'.invoked = << <<rules[k], current_observation[1]>> >>
      ]_vars

\* after two rules, two default actions and an observation: the rule under
\* "hot" is g and the default action is the second one
C19_Witness ==
    /\ cls = "ReactiveAgent"
    /\ call.op = "add_rule"
    /\ DOMAIN rules = RuleKeys
    /\ rules["hot"] = "g"
    /\ rules["{'type': 'hot'}"] = "f"
    /\ default_action = RuleAction("idle", DictData(<< >>))
    /\ current_observation = Some(StrData("hot"))

\* ---- C20
\* C20: on an agent of either class, step by step: every perceive, direct or
\* as the first step of a cycle, appends its observation to observations and
\* leaves actions_taken; the decide of a cycle leaves both, and the return of
\* a cycle whose decide returned an Action appends that Action to
\* actions_taken and leaves observations; a reset empties both; every other
\* step, among them the direct calls of decide, act and learn, leaves both.
\* So the two histories are the observations perceived and the Actions
\* decided in cycles since the last reset, in order.
C20_HistoriesRecordPerceptionsAndCycleActions ==
    [][ /\ \A o \in AgentsPayloads :
             ( \/ CallPerceive(o)
               \/ RunCycle(o)
               \/ \E r \in OptRewards : RunCycleWithFeedback(o, r) ) =>
                 /\ observations' = Append(observations, o)
                 /\ UNCHANGED actions_taken
        /\ (pc # "decided" /\ pc' = "decided") =>
             /\ \E u \in RandomDraws, k \in Picks :
                  cyc'.action = self_decide(Self, u, k).ret
             /\ UNCHANGED <<observations, actions_taken>>
        /\ (pc = "decided" /\ pc' = "acted") =>
             /\ cyc'.action = cyc.action
             /\ UNCHANGED <<observations, actions_taken>>
        /\ (pc # "idle" /\ pc' = "idle") =>
             /\ actions_taken' = IF cyc.action.kind = "Action"
                                 THEN Append(actions_taken, cyc.action)
                                 ELSE actions_taken
             /\ UNCHANGED observations
        /\ CallReset => (observations' = << >> /\ actions_taken' = << >>)
        /\ pc' = "learned" => UNCHANGED <<observations, actions_taken>>
        /\ ( /\ pc = "idle" /\ pc' = "idle"
             /\ call'.op \in {"decide", "act", "learn", "add_rule",
                               "set_default_action"} ) =>
               UNCHANGED <<observations, actions_taken>>
      ]_vars

\* since the reset a Reactive agent has run two cycles: the rule's Action
\* for "hot", then the default action for "s1"
C20_Witness ==
    /\ cls = "ReactiveAgent"
    /\ resets = 1
    /\ call.op = "run_cycle"
    /\ observations = <<StrData("hot"), StrData("s1")>>
    /\ Len(actions_taken) = 2
    /\ actions_taken[1] = RuleAction("f", StrData("hot"))
    /\ actions_taken[2].name = "wait"

\* ---- C21
\* C21: in the loop perceive; learn; decide: a learn(reward) that finds
\* last_state and last_action set (the empty-string key included) appends
\* exactly the record (last_state, last_action, reward, current_state, the
\* value written) and any other learn leaves the log; no other step changes
\* the log; and the learn of every iteration but the first appends a record.
C21_ExperienceCountsLearnCalls ==
    [][ /\ \A r \in Rewards :
             CallLearn(r) =>
               IF last_state # None /\ last_action # None
               THEN experience' = Append(experience,
                       [ state |-> last_state[1],
                         action |-> last_action[1],
                         reward |-> r,
                         next_state |-> current_state,
                         q_value |-> q_table'[<<last_state[1], last_action[1]>>] ])
               ELSE experience' = experience
        /\ (\E r \in Rewards : CallLearn(r)) =>
               (Updates <=> Len(observations) > 1)
        /\ call'.op # "learn" => experience' = experience
      ]_vars

\* ---- C22
\* C22: under every step of a driver that calls perceive, decide, act, learn,
\* both cycles and reset in any order, every key of the Q-table stays a key;
\* and a key that appears either holds 0 or is the key learn has just
\* updated, whose old value learn read as 0 (its new value is
\* learning_rate * (reward + discount_factor * max_a Q[current_state, a])).
C22_TableKeysNeverShrink ==
    [][ /\ Keys(q_table) \subseteq Keys(q_table')
        /\ \A k \in Keys(q_table') \ Keys(q_table) :
             \/ q_table'[k] = Zero
             \/ /\ Updates
                /\ k = <<last_state[1], last_action[1]>>
                /\ q_table'[k] =
                     NewQ(Zero, learning_rate, Last(experience').reward,
                          discount_factor,
                          RMax({ QGet(q_table, <<current_state[1], a>>) :
                                   a \in SeqRange(available_actions) }))
      ]_vars

\* after a reset, a learn has created the key of an explored action (the other
\* action of its state is no key) next to the two keys of the next state
C22_Witness ==
    /\ call.op = "learn"
    /\ resets = 1
    /\ Keys(q_table) = { <<"s1", "b">>, <<"s2", "a">>, <<"s2", "b">> }
    /\ q_table[<<"s1", "b">>] = RInt(5)
    /\ q_table[<<"s2", "a">>] = Zero

\* ---- C23
\* C23: after two dict payloads with the same items have been perceived in a
\* row, in whatever insertion order, last_state and current_state are the
\* same key
\* (for {x: 1, y: 2} in either order the key is "[('x', 1), ('y', 2)]"), so a
\* decide after the second finds the table keys the first one made; and after
\* a str payload is perceived current_state is that str.
C23_StateKeyIgnoresInsertionOrder ==
    /\ \A n \in 2..Len(observations) :
         ( /\ n = Len(observations)
           /\ observations[n - 1].kind = "dict"
           /\ observations[n].kind = "dict"
           /\ SeqRange(observations[n - 1].items) = SeqRange(observations[n].items) ) =>
             /\ last_state = current_state
             /\ n = 2 => \A k \in Keys(q_table) : k[1] = current_state[1]
    /\ ( /\ observations # << >>
         /\ Last(observations) \in
              { DictData(<< <<"x", 1>>, <<"y", 2>> >>),
                DictData(<< <<"y", 2>>, <<"x", 1>> >>) } ) =>
           current_state = Some("[('x', 1), ('y', 2)]")
    /\ (observations # << >> /\ Last(observations).kind = "str") =>
           current_state = Some(Last(observations).val)

\* the same items in the two orders were perceived, with a decide after each:
\* the table has the two keys of one state
C23_Witness ==
    /\ call.op = "decide"
    /\ observations = << DictData(<< <<"x", 1>>, <<"y", 2>> >>),
                         DictData(<< <<"y", 2>>, <<"x", 1>> >>) >>
    /\ last_state = current_state
    /\ Keys(q_table) = { <<"[('x', 1), ('y', 2)]", "a">>,
                         <<"[('x', 1), ('y', 2)]", "b">> }

\* ---- C24
\* the sum of the values of q at the keys of the sequence ks
RECURSIVE SumAt(_, _)
SumAt(q, ks) ==
    IF ks = << >> THEN Zero ELSE RAdd(SumAt(q, Tail(ks)), q[Head(ks)])
\* the keys the driver can make, in a fixed order
AllKeys ==
    << <<"s1", "a">>, <<"s1", "b">>, <<"s1", "c">>,
       <<"s2", "a">>, <<"s2", "b">>, <<"s2", "c">> >>

\* C24: every get_q_table_summary() changes no field of the agent and
\* reports total_entries = the number of table keys, total_experiences = the
\* length of the experience log, average_q_value = the sum of the table
\* values divided by the number of keys (0 for the empty table), and
\* states_visited = the number of distinct states among the keys.
C24_SummaryReportsTable ==
    [][ CallSummary =>
          LET n == Cardinality(Keys(q_table))
              present == SelectSeq(AllKeys, LAMBDA k : k \in Keys(q_table))
          IN  /\ UNCHANGED fields
              /\ Len(present) = n
              /\ call'.ret.total_entries = n
              /\ call'.ret.total_experiences = Len(experience)
              /\ RMul(call'.ret.average_q_value, RInt(n)) = SumAt(q_table, present)
              /\ n = 0 => call'.ret.average_q_value = Zero
              /\ call'.ret.states_visited =
                   Cardinality({ st \in {"s1", "s2"} :
                                   \E a \in {"a", "b", "c"} :
                                       <<st, a>> \in Keys(q_table) })
      ]_vars

\* a summary of a table of six keys over two states whose mean is no integer
C24_Witness ==
    /\ call.op = "get_q_table_summary"
    /\ call.ret.total_entries = 6
    /\ call.ret.states_visited = 2
    /\ call.ret.total_experiences = 2
    /\ call.ret.average_q_value[2] # 1

\* ---- C25
\* a result of a method with the state field of the agent left out
HideState(r) == [r EXCEPT !.self.state = "idle"]
\* the Actions handed to act
AnyActArgs ==
    IF cls = "ReactiveAgent" THEN DefaultActions \cup AgentsActArgs ELSE ActArgs

\* C25: in every reachable state, every operation gives an agent that
\* differs only in the state field the same result and the same effect on
\* the other fields (histories, Q-table, last and current state, experience
\* log): the state never gates an operation.
C25_StateNeverGates ==
    pc = "idle" =>
      \A s \in AgentStates :
        LET A == Self
            B == [Self EXCEPT !.state = s]
        IN  /\ \A o \in CyclePayloads :
                  /\ [self_perceive(A, o) EXCEPT !.state = "idle"]
                       = [self_perceive(B, o) EXCEPT !.state = "idle"]
                  /\ \A u \in RandomDraws, k \in Picks :
                        /\ run_cycle(A, o, u, k) = run_cycle(B, o, u, k)
                        /\ cls = "QLearningAgent" =>
                             \A r \in OptRewards :
                                 run_cycle_with_feedback(A, o, r, u, k)
                                   = run_cycle_with_feedback(B, o, r, u, k)
            /\ \A u \in RandomDraws, k \in Picks :
                  LET da == self_decide(A, u, k)
                      db == self_decide(B, u, k)
                  IN  /\ da.ret = db.ret
                      /\ HideState(da) = HideState(db)
            /\ \A a \in AnyActArgs :
                  HideState(self_act(A, a)) = HideState(self_act(B, a))
            /\ cls = "QLearningAgent" =>
                  \A r \in Rewards :
                      HideState(learn(A, r)) = HideState(learn(B, r))
            /\ reset(A) = reset(B)

\* a cycle has acted, and from here a stopped agent and this one both get
\* an Action from decide and a report from run_cycle
C25_Witness ==
    /\ pc = "idle"
    /\ call.op = "run_cycle"
    /\ call.ret.kind # "None"
    /\ actions_taken # << >>
    /\ \E o \in CyclePayloads, u \in RandomDraws, k \in Picks :
          LET r == run_cycle([Self EXCEPT !.state = "stopped"], o, u, k)
          IN  /\ r.ret.kind \notin {"None", "raise"}
              /\ Len(r.self.actions_taken) = Len(actions_taken) + 1

\* ---- C26
\* C26: for a ReactiveAgent and a QLearningAgent, in every state reachable
\* through the public operations, actions_taken is no longer than
\* observations, and it is non-empty only if an observation has been
\* perceived since the last reset (observations, which reset empties and
\* only perceive extends, is non-empty).
C26_NoMoreActionsThanObservations ==
    /\ Len(actions_taken) <= Len(observations)
    /\ actions_taken # << >> => observations # << >> /\ ever_perceived

\* after a reset, as many actions as observations; and a state with fewer
C26_Witness ==
    /\ resets = 1
    /\ Len(actions_taken) = 2
    /\ Len(observations) = 2

\* ---- C27
\* C27: whenever no run_cycle / run_cycle_with_feedback call is executing,
\* the state of the agent is Idle; in particular a cycle that a failure of
\* perceive, decide, act or learn ends leaves the agent Idle, and
\* actions_taken has no action whose act failed.
C27_IdleWhenNoCycleRuns ==
    pc = "idle" =>
      /\ state = "idle"
      /\ call.op \in {"run_cycle", "run_cycle_with_feedback"}
           /\ call.ret.kind = "raise"
           => actions_taken = << >>

\* ---- C28
\* C28: the state Stopped is never reached; a step enters Learning only
\* inside run_cycle_with_feedback with a supplied reward; and a direct call
\* of perceive, decide, act, learn, add_rule, set_default_action or
\* get_q_table_summary leaves the state field as it was.
C28_StoppedNeverLearningOnlyInFeedback ==
    [][ /\ state' # "stopped"
        /\ state' = "learning" /\ state # "learning" =>
              /\ cyc.method = "run_cycle_with_feedback"
              /\ pc = "perceived"
              /\ cyc.reward # None
        /\ pc = "idle" /\ pc' = "idle" /\ call'.op # "reset" =>
              /\ call'.op \in {"perceive", "decide", "act", "learn", "add_rule",
                               "set_default_action", "get_q_table_summary"}
              /\ state' = state
      ]_vars

\* a direct call made while the state field is not Idle (a cycle was ended
\* by a failure while Learning)
C28_Witness ==
    /\ pc = "idle"
    /\ state = "learning"
    /\ call.op \in {"perceive", "decide", "act", "learn", "get_q_table_summary"}

\* ---- C29
\* every value of q is the value of q2 at the same key
KeepsValues(q, q2) ==
    /\ Keys(q) \subseteq Keys(q2)
    /\ \A k \in Keys(q) : q2[k] = q[k]

\* C29: perceive and decide of a QLearningAgent never change the value of
\* an existing Q-table entry; perceive adds no key; decide adds keys only in
\* the exploit branch, only (current_state, a) for the configured actions a
\* and only with value 0 (in that branch all of them are present afterwards,
\* in the explore branch the table is as before); and the action of every
\* table key is a configured action. (Under direct calls the method of a
\* step and the outcome of its random.random() are those call records.)
C29_PerceiveDecideKeepValues ==
    [][ /\ call'.op = "perceive" => q_table' = q_table
        /\ call'.op = "decide" =>
              /\ KeepsValues(q_table, q_table')
              /\ \A key \in Keys(q_table') \ Keys(q_table) :
                    /\ ~explores(Self, call'.u)
                    /\ current_state # None
                    /\ key[1] = current_state[1]
                    /\ key[2] \in SeqRange(available_actions)
                    /\ q_table'[key] = Zero
              /\ explores(Self, call'.u) => q_table' = q_table
              /\ ~explores(Self, call'.u) /\ call'.ret.kind = "Action" =>
                    \A a \in SeqRange(available_actions) :
                        <<current_state[1], a>> \in Keys(q_table')
        /\ \A key \in Keys(q_table') : key[2] \in SeqRange(available_actions)
      ]_vars

\* an exploiting decide has run on a table of six keys, three for each of
\* two states, that holds a learned value
C29_Witness ==
    /\ call.op = "decide"
    /\ ~explores(Self, call.u)
    /\ Len(experience) = 1
    /\ Len(available_actions) = 3
    /\ Cardinality(Keys(q_table)) = 6
    /\ \E key \in Keys(q_table) : q_table[key] # Zero

\* ---- C30
\* C30: in the workflow graph, execution starts at the agent node; after
\* every agent step the run goes on to the tools node if and only if the
\* response of the model holds at least one tool call, and ends otherwise;
\* every tools step is followed by an agent step; so the run ends only
\* directly after an agent step whose response has no tool call, and
\* run_agent returns the content of that response if it is not empty and
\* "No response generated" otherwise.
C30_WorkflowRouting ==
    [][ /\ node = "start" => node' = "agent" /\ Len(messages') = 1
        /\ node = "agent" =>
              /\ Last(messages').type = "ai"
              /\ node' = "tools" <=> Last(messages').tool_calls # << >>
              /\ node' = "END" <=> Last(messages').tool_calls = << >>
        /\ node = "tools" =>
              /\ node' = "agent"
              /\ Last(messages').type = "tool"
        /\ node' = "END" =>
              /\ node = "agent"
              /\ Last(messages').tool_calls = << >>
        /\ node' = "returned" =>
              /\ node = "END"
              /\ Last(messages).type = "ai"
              /\ Last(messages).tool_calls = << >>
              /\ answer' = Some(IF Last(messages).content # ""
                                THEN Last(messages).content
                                ELSE "No response generated")
      ]_vars

\* run_agent has returned the text of the last response, after a step that
\* called two tools and carried another text
C30_Witness ==
    /\ node = "returned"
    /\ answer = Some("c2")
    /\ Len(messages) = 5
    /\ messages[2] = AIMessage("c1", <<"wikipedia_search", "calculator">>)
    /\ messages[3].type = "tool"

====
